---------------------------- MODULE Spec2Model ----------------------------
(***************************************************************************)
(* A model of src/app.js, the "Wetter-Finder" page script: the submit      *)
(* handler of the search form, the geocoding lookup, the candidate         *)
(* generator, the per-candidate forecast evaluation, the ranking and the   *)
(* rendering of the result.                                                *)
(*                                                                         *)
(* Every invocation of the submit handler is one "query".  An async        *)
(* function runs atomically between two awaits, so one action of the       *)
(* model is one such segment: it starts when a promise the handler awaits  *)
(* settles and runs to the next await or to the end of the handler.        *)
(*                                                                         *)
(* Numbers.  A JavaScript number is a record [k, v]: k = "nan" is NaN,     *)
(* k = "num" is the finite value v / Unit.  The fixed-point scale keeps    *)
(* three decimal digits and the division by the length of an hourly series *)
(* exact; binary floating-point rounding is not modelled.                  *)
(*                                                                         *)
(* Strings that the code parses are sequences of one-character strings.    *)
(*                                                                         *)
(* Specifications.  Spec: one query with every input and answer.           *)
(* SpecOverlap: overlapping queries.  SpecTimers: Spec with the timers of  *)
(* proxiedFetch firing.  SpecGenerator: generateCandidatePoints on its     *)
(* own, with all eight bearings.  SpecSchedule: the loop of                *)
(* findBestWeather, then the same evaluations under a concurrent schedule. *)
(***************************************************************************)
EXTENDS Integers, Sequences, FiniteSets, TLC

(***************************************************************************)
(* Bounds of the model.                                                    *)
(***************************************************************************)
\* Number of invocations of the submit handler (they may overlap).
MaxQueries == 2
\* How many of the eight compass bearings of line 106 are generated.
MaxDirections == 2

\* Fixed-point scale: thousandths, times 6 so that the mean over a series of
\* one, two or three hours is exact.
Unit == 6 * 1000

(***************************************************************************)
(* JavaScript numbers                                                      *)
(***************************************************************************)
NaN == [k |-> "nan", v |-> 0]

Num(n) == [k |-> "num", v |-> n]

isNaN(x) == x.k = "nan"

\* a + b
Add(a, b) == IF isNaN(a) \/ isNaN(b) THEN NaN ELSE Num(a.v + b.v)

\* a - b
Sub(a, b) == IF isNaN(a) \/ isNaN(b) THEN NaN ELSE Num(a.v - b.v)

\* a !== b  (NaN !== NaN is true)
StrictNotEqual(a, b) == isNaN(a) \/ isNaN(b) \/ a.v # b.v

\* The quotient a / b of two integers, b # 0, rounded toward zero.
Quot(a, b) ==
    LET n == IF a < 0 THEN 0 - a ELSE a
        d == IF b < 0 THEN 0 - b ELSE b
    IN  IF (a < 0) = (b < 0) THEN n \div d ELSE 0 - (n \div d)

\* Math.round(x): the nearest integer, halves up.
MathRound(x) ==
    IF isNaN(x) THEN NaN ELSE Num(((2 * x.v + Unit) \div (2 * Unit)) * Unit)

\* x.toFixed(1): one decimal digit (the text "NaN" for NaN).
toFixed1(x) ==
    IF isNaN(x)
    THEN NaN
    ELSE Num(((20 * x.v + Unit) \div (2 * Unit)) * (Unit \div 10))

\* sum / n for the sum of a series of n values: the sum of no values is 0,
\* and 0 / 0 is NaN.
DivByLength(sum, n) == IF isNaN(sum) \/ n = 0 THEN NaN ELSE Num(sum.v \div n)

(***************************************************************************)
(* Strings and their conversion to numbers                                 *)
(***************************************************************************)
DigitChars == <<"0", "1", "2", "3", "4", "5", "6", "7", "8", "9">>

IsDigit(c) == \E i \in 1..10 : DigitChars[i] = c

DigitValue(c) == (CHOOSE i \in 1..10 : DigitChars[i] = c) - 1

WhiteSpace == {" "}

RECURSIVE TrimStart(_)
TrimStart(s) ==
    IF s # <<>> /\ Head(s) \in WhiteSpace THEN TrimStart(Tail(s)) ELSE s

RECURSIVE TrimEnd(_)
TrimEnd(s) ==
    IF s # <<>> /\ s[Len(s)] \in WhiteSpace
    THEN TrimEnd(SubSeq(s, 1, Len(s) - 1))
    ELSE s

\* String.prototype.trim
trim(s) == TrimEnd(TrimStart(s))

RECURSIVE LeadingDigits(_)
LeadingDigits(s) ==
    IF s = <<>> \/ ~IsDigit(Head(s))
    THEN <<>>
    ELSE <<Head(s)>> \o LeadingDigits(Tail(s))

\* The value of a run of decimal digits, in whole units.
RECURSIVE IntegerValue(_)
IntegerValue(ds) ==
    IF ds = <<>>
    THEN 0
    ELSE IntegerValue(SubSeq(ds, 1, Len(ds) - 1)) * 10 + DigitValue(ds[Len(ds)])

\* The value of the digits after the decimal point, in 1/Unit.
RECURSIVE FractionValue(_, _)
FractionValue(ds, scale) ==
    IF ds = <<>>
    THEN 0
    ELSE (DigitValue(Head(ds)) * scale) \div 10
         + FractionValue(Tail(ds), scale \div 10)

\* The longest prefix of s that is a StrDecimalLiteral: [sign] digits
\* [. digits].  ok says whether there is one, rest is what follows it.
\* (Exponents and the literal Infinity are not in the input alphabet.)
StrDecimalPrefix(s) ==
    LET signed   == s # <<>> /\ Head(s) \in {"-", "+"}
        negative == s # <<>> /\ Head(s) = "-"
        body     == IF signed THEN Tail(s) ELSE s
        ip       == LeadingDigits(body)
        afterInt == SubSeq(body, Len(ip) + 1, Len(body))
        hasDot   == afterInt # <<>> /\ Head(afterInt) = "."
        fp       == IF hasDot THEN LeadingDigits(Tail(afterInt)) ELSE <<>>
        ok       == ip # <<>> \/ fp # <<>>
        used     == Len(ip) + (IF hasDot THEN 1 + Len(fp) ELSE 0)
        mag      == IntegerValue(ip) * Unit + FractionValue(fp, Unit)
    IN  [ok   |-> ok,
         v    |-> IF negative THEN 0 - mag ELSE mag,
         rest |-> SubSeq(body, used + 1, Len(body))]

\* parseFloat(s): leading white space is skipped, then the longest numeric
\* prefix counts; NaN when there is none.
parseFloat(s) ==
    LET p == StrDecimalPrefix(TrimStart(s))
    IN  IF p.ok THEN Num(p.v) ELSE NaN

\* Number(s) for a string s: the empty (or blank) string is 0, and the whole
\* string must be a numeric literal.
Number(s) ==
    LET t == trim(s)
        p == StrDecimalPrefix(t)
    IN  IF t = <<>> THEN Num(0)
        ELSE IF p.ok /\ p.rest = <<>> THEN Num(p.v)
        ELSE NaN


(***************************************************************************)
(* Inputs: what the user types and what the two services answer            *)
(***************************************************************************)
\* Contents of the location field.
PlaceInputs == { <<>>, <<" ">>, <<"B">>, <<" ", "B", " ">> }

\* Contents of the radius field.
RadiusInputs ==
    { <<>>, <<"k", "m">>, <<"0">>, <<"-", "5">>, <<"5", "0">>,
      <<"5", "0", "k", "m">> }

NoCoords == [found |-> FALSE, lat |-> NaN, lon |-> NaN]

\* The body of a geocoding response: data.results is empty or absent, or
\* its first element is a match.
GeoPayloads ==
    { [results |-> <<>>],
      [results |-> << [lat |-> Num(60 * Unit), lon |-> Num(10 * Unit)] >>] }

\* One hourly record of a forecast: both fields arrive as strings.
Hour(chance, precip) == [chanceofremdry |-> chance, precipMM |-> precip]

HourlySeries ==
    { <<>>,
      << Hour(<<"8", "0">>, <<"0", ".", "5">>) >>,
      << Hour(<<"8", "0">>, <<"0", ".", "0">>) >>,
      << Hour(<<"5", "0">>, <<"0", ".", "0">>) >>,
      << Hour(<<"n", "/", "a">>, <<"0", ".", "5">>) >>,
      << Hour(<<"8", "0">>, <<>>) >>,
      << Hour(<<"8", "0">>, <<"0", ".", "5">>),
         Hour(<<"8", "0">>, <<"0", ".", "5">>) >>,
      << Hour(<<"8", "0">>, <<"0", ".", "0">>),
         Hour(<<"5", "0">>, <<"0", ".", "0">>) >> }

\* The body of a forecast response.  shape: "noWeather" (data.weather missing
\* or empty), "hourlyNotArray" (weather[0].hourly missing or no array), "ok".
\* nearest: "absent" (no nearest_area), "named", or "emptyAreaName"
\* (nearest_area[0].areaName is an empty array).
Payload(shape, hourly, nearest) ==
    [shape |-> shape, hourly |-> hourly, nearest |-> nearest]

\* No body was evaluated: the request failed, the response was not ok, or
\* getWeather threw on what it read.
NoBody == Payload("none", <<>>, "absent")

WeatherPayloads ==
    { Payload("noWeather", <<>>, "absent"),
      Payload("hourlyNotArray", <<>>, "absent") }
    \cup { Payload("ok", h, "named") : h \in HourlySeries }
    \cup { Payload("ok", << Hour(<<"8", "0">>, <<"0", ".", "5">>) >>, n) :
             n \in {"absent", "emptyAreaName"} }

(***************************************************************************)
(* getCoordinates, lines 79-84: what it makes of the response body         *)
(***************************************************************************)
\* null (found = FALSE) when data.results is empty, else the first match.
CoordinatesOf(data) ==
    IF Len(data.results) > 0
    THEN [found |-> TRUE, lat |-> data.results[1].lat,
          lon |-> data.results[1].lon]
    ELSE NoCoords

\* The handler without the test of line 45.
CoordsNeverMissing(c) == FALSE

\* The handler's test of line 45, !coords.
CoordsMissing(c) == ~c.found

(***************************************************************************)
(* generateCandidatePoints, lines 96-114                                   *)
(***************************************************************************)
\* Math.cos and Math.sin of an angle in whole degrees, in thousandths, for
\* the angles the model uses: the bearings and the latitudes of the origins
\* (cos is even, so a southern latitude has the cosine of the northern one).
CosMilli(deg) ==
    LET a == IF deg < 0 THEN 0 - deg ELSE deg
    IN  CASE a = 0 -> 1000   [] a = 45 -> 707   [] a = 60 -> 500
          [] a = 89 -> 17    [] a = 90 -> 0     [] a = 135 -> -707
          [] a = 180 -> -1000 [] a = 225 -> -707 [] a = 270 -> 0
          [] a = 315 -> 707

SinMilli(deg) ==
    CASE deg = 0 -> 0      [] deg = 45 -> 707   [] deg = 90 -> 1000
      [] deg = 135 -> 707  [] deg = 180 -> 0    [] deg = 225 -> -707
      [] deg = 270 -> -1000 [] deg = 315 -> -707

\* The eight bearings of line 106 (N, NE, E, SE, S, SW, W, NW).
AllDirections == <<0, 45, 90, 135, 180, 225, 270, 315>>

\* The bearings the model generates: the first MaxDirections of them.
directions == SubSeq(AllDirections, 1, MaxDirections)

\* Line 103: radiusKm / 111.
latDelta(radiusKm) ==
    IF isNaN(radiusKm) THEN NaN ELSE Num(Quot(radiusKm.v, 111))

\* Line 104: radiusKm / (111 * Math.cos(lat * degToRad)).
lonDelta(lat, radiusKm) ==
    IF isNaN(radiusKm) \/ isNaN(lat)
    THEN NaN
    ELSE Num(Quot(radiusKm.v * 1000, 111 * CosMilli(Quot(lat.v, Unit))))

\* Lines 108-111: the point at one bearing.
OffsetPoint(lat, lon, radiusKm, angleDeg) ==
    LET dLatBase == latDelta(radiusKm)
        dLonBase == lonDelta(lat, radiusKm)
        dLat == IF isNaN(dLatBase) THEN NaN
                ELSE Num(Quot(dLatBase.v * CosMilli(angleDeg), 1000))
        dLon == IF isNaN(dLonBase) THEN NaN
                ELSE Num(Quot(dLonBase.v * SinMilli(angleDeg), 1000))
    IN  [lat |-> Add(lat, dLat), lon |-> Add(lon, dLon)]

generateCandidatePoints(lat, lon, radiusKm) ==
    << [lat |-> lat, lon |-> lon] >>
    \o [i \in 1..Len(directions) |->
            OffsetPoint(lat, lon, radiusKm, directions[i])]

(***************************************************************************)
(* generateCandidatePoints for an origin at a pole.  Math.cos and Math.sin *)
(* are implementation-approximated.  90 * degToRad is the double next to   *)
(* pi / 2, not pi / 2, so the correctly rounded Math.cos of it is          *)
(* 6.1e-17, and that of Math.sin(180 * degToRad) is 1.2e-16, twice as      *)
(* much; a build may also return 0 for them.  Line 104 then divides by a   *)
(* vanishing number or by 0.                                               *)
(***************************************************************************)
\* What the build's Math.cos and Math.sin return for these two arguments.
TrigBuilds == {"rounded", "exact"}

AtPole(lat) == ~isNaN(lat) /\ (lat.v = 90 * Unit \/ lat.v = (0 - 90) * Unit)

Sign(n) == IF n < 0 THEN -1 ELSE IF n > 0 THEN 1 ELSE 0

\* +Infinity and -Infinity.
Infinity(sign) == [k |-> "inf", v |-> sign]

\* A finite number of a magnitude above 10^13, far outside the range of the
\* fixed-point numbers.
Huge(sign) == [k |-> "huge", v |-> sign]

\* Line 104 for an origin at a pole: radiusKm / (111 * 6.1e-17), or
\* radiusKm / 0.
PoleLonDelta(build, radiusKm) ==
    IF isNaN(radiusKm) THEN NaN
    ELSE IF build = "exact"
    THEN IF radiusKm.v = 0 THEN NaN ELSE Infinity(Sign(radiusKm.v))
    ELSE IF radiusKm.v = 0 THEN Num(0) ELSE Huge(Sign(radiusKm.v))

\* Lines 110-111 for an origin at a pole: lon + lonDelta * Math.sin(angleRad).
\* Math.sin(0) is 0; at 180 degrees the rounded sine is twice the rounded
\* cosine of line 104, which leaves 2 * radiusKm / 111.
PoleLon(build, lon, radiusKm, angleDeg) ==
    LET d == PoleLonDelta(build, radiusKm)
    IN  IF isNaN(d) \/ isNaN(lon) THEN NaN
        ELSE IF d.k = "num" THEN lon
        ELSE IF angleDeg = 0 \/ (angleDeg = 180 /\ build = "exact")
        THEN IF d.k = "inf" THEN NaN ELSE lon
        ELSE IF angleDeg = 180
        THEN IF d.k = "inf" THEN d
             ELSE Add(lon, Num(Quot(2 * radiusKm.v, 111)))
        ELSE [k |-> d.k, v |-> d.v * Sign(SinMilli(angleDeg))]

\* Lines 108-111 in a given build, for any origin.
candidatePoint(build, lat, lon, radiusKm, angleDeg) ==
    IF AtPole(lat)
    THEN LET dLatBase == latDelta(radiusKm)
             dLat == IF isNaN(dLatBase) THEN NaN
                     ELSE Num(Quot(dLatBase.v * CosMilli(angleDeg), 1000))
         IN  [lat |-> Add(lat, dLat),
              lon |-> PoleLon(build, lon, radiusKm, angleDeg)]
    ELSE OffsetPoint(lat, lon, radiusKm, angleDeg)

(***************************************************************************)
(* getWeather, lines 166-185: what it makes of the response body           *)
(***************************************************************************)
RECURSIVE DrynessSum(_)
DrynessSum(hourly) ==
    IF hourly = <<>>
    THEN Num(0)
    ELSE Add(DrynessSum(SubSeq(hourly, 1, Len(hourly) - 1)),
             Number(hourly[Len(hourly)].chanceofremdry))

RECURSIVE PrecipSum(_)
PrecipSum(hourly) ==
    IF hourly = <<>>
    THEN Num(0)
    ELSE Add(PrecipSum(SubSeq(hourly, 1, Len(hourly) - 1)),
             parseFloat(hourly[Len(hourly)].precipMM))

NoData == [dryness |-> NaN, precip |-> NaN, nearest |-> ""]

\* Lines 167-170: the shape check throws.
ShapeCheckFails(data) == data.shape # "ok"

\* Lines 181-184: areaName[0].value of an empty areaName throws a TypeError.
NearestNameThrows(data) == data.nearest = "emptyAreaName"

\* threw: getWeather throws; else value is what it returns.
EvaluateWeather(data) ==
    IF ShapeCheckFails(data) \/ NearestNameThrows(data)
    THEN [threw |-> TRUE, value |-> NoData]
    ELSE [threw |-> FALSE,
          value |-> [dryness |-> DivByLength(DrynessSum(data.hourly),
                                             Len(data.hourly)),
                     precip  |-> PrecipSum(data.hourly),
                     nearest |-> IF data.nearest = "named"
                                 THEN "Potsdam" ELSE ""]]

\* Lines 130-136: the entry pushed for point pt.
ResultEntry(pt, data) ==
    [lat |-> pt.lat, lon |-> pt.lon, dryness |-> data.dryness,
     precip |-> data.precip, nearest |-> data.nearest]

(***************************************************************************)
(* results.sort, lines 143-146                                             *)
(***************************************************************************)
\* The comparison function of lines 143-146.
compareResults(a, b) ==
    IF StrictNotEqual(b.dryness, a.dryness)
    THEN Sub(b.dryness, a.dryness)
    ELSE Sub(a.precip, b.precip)

\* What Array.prototype.sort makes of the value: NaN counts as 0.
SortCompare(a, b) ==
    LET v == compareResults(a, b)
    IN  IF isNaN(v) THEN 0 ELSE IF v.v < 0 THEN -1 ELSE IF v.v > 0 THEN 1 ELSE 0

\* ECMAScript's "consistent comparison function" for the elements of arr.
ConsistentComparator(arr) ==
    LET S == {arr[i] : i \in 1..Len(arr)}
    IN  \A a, b, c \in S :
            /\ SortCompare(a, a) = 0
            /\ (SortCompare(a, b) = 0 => SortCompare(b, a) = 0)
            /\ (SortCompare(a, b) = 0 /\ SortCompare(b, c) = 0
                    => SortCompare(a, c) = 0)
            /\ (SortCompare(a, b) < 0 /\ SortCompare(b, c) < 0
                    => SortCompare(a, c) < 0)
            /\ (SortCompare(a, b) > 0 /\ SortCompare(b, c) > 0
                    => SortCompare(a, c) > 0)

\* e inserted into the sorted array arr behind every element not after it.
RECURSIVE InsertSorted(_, _)
InsertSorted(arr, e) ==
    IF arr = <<>> THEN <<e>>
    ELSE IF SortCompare(arr[Len(arr)], e) <= 0 THEN Append(arr, e)
    ELSE Append(InsertSorted(SubSeq(arr, 1, Len(arr) - 1), e), arr[Len(arr)])

\* The stable sort of arr.
RECURSIVE StableSort(_)
StableSort(arr) ==
    IF arr = <<>> THEN <<>>
    ELSE InsertSorted(StableSort(SubSeq(arr, 1, Len(arr) - 1)), arr[Len(arr)])

Reorderings(arr) ==
    { [i \in 1..Len(arr) |-> arr[f[i]]] :
        f \in { g \in [1..Len(arr) -> 1..Len(arr)] :
                    \A i, j \in 1..Len(arr) : i # j => g[i] # g[j] } }

\* The arrays results.sort(...) can leave: the stable sort when the comparison
\* function is consistent, and else an implementation-defined order.
sort(arr) ==
    IF ConsistentComparator(arr) THEN {StableSort(arr)} ELSE Reorderings(arr)

(***************************************************************************)
(* showResult, lines 194-214                                               *)
(***************************************************************************)
\* An optional value is a sequence of at most one element: <<>> is undefined.
Undefined == <<>>

NoCard ==
    [place |-> <<>>, radiusKm |-> NaN, nearest |-> "", lat |-> NaN,
     lon |-> NaN, drynessPercent |-> NaN, precipMM |-> NaN]

\* resultSection.innerHTML: kind is "empty", "best" (the card of lines
\* 202-212), "none" (line 196) or "error" (line 56).  owner is the query
\* that wrote it.
Html(kind, owner, msg, card) ==
    [kind |-> kind, owner |-> owner, msg |-> msg, card |-> card]

\* Lines 200-212: the card of the best site.
BestCard(best, place, radiusKm) ==
    [place |-> place, radiusKm |-> radiusKm, nearest |-> best.nearest,
     lat |-> best.lat, lon |-> best.lon,
     drynessPercent |-> MathRound(best.dryness),
     precipMM |-> toFixed1(best.precip)]

\* showResult without the test of line 195: best.dryness of undefined throws
\* a TypeError.
showResultUnguarded(best, place, radiusKm, q) ==
    IF best = Undefined
    THEN [threw |-> TRUE, html |-> Html("none", q, "", NoCard)]
    ELSE [threw |-> FALSE,
          html |-> Html("best", q, "", BestCard(best[1], place, radiusKm))]

\* threw: showResult throws; else html is what it writes.
showResult(best, place, radiusKm, q) ==
    IF best = Undefined
    THEN [threw |-> FALSE, html |-> Html("none", q, "", NoCard)]
    ELSE [threw |-> FALSE,
          html |-> Html("best", q, "", BestCard(best[1], place, radiusKm))]

(***************************************************************************)
(* State                                                                   *)
(***************************************************************************)
VARIABLES
    pc,              \* where each invocation of the submit handler stands
    place,           \* its const location (line 32)
    radiusKm,        \* its const radiusKm (line 33)
    coords,          \* its const coords (line 44)
    idx,             \* findBestWeather: index of the point of the loop
    results,         \* findBestWeather: its array results
    best,            \* the handler's const best (line 51)
    resultSection,   \* the element #result: class hidden, innerHTML
    loadingSection,  \* the element #loading: class hidden, textContent
    settled,         \* history: how each point's getWeather ended, in order:
                     \* ok, the data it returned, the body they came from
    geoResult,       \* history: what getCoordinates returned
    outcome,         \* history: how the invocation ended
    geoFetches,      \* history: geocoding requests issued
    weatherFetches,  \* history: forecast requests issued
    generated,       \* history: generateCandidatePoints was called
    requested,       \* history: the points whose forecast was requested
                     \* (line 160), in the order of the requests
    sortInput,       \* history: the array results as line 143 found it
    rankCalls,       \* history: how often results.sort ran (line 143)
    showCalls,       \* history: how often showResult was called (line 53)
    generator,       \* a call of generateCandidatePoints on its own: its
                     \* arguments, its array candidates, its place in forEach
    concurrent       \* the evaluations of the points under a concurrent
                     \* schedule: one slot per point, empty while pending

locals == <<place, radiusKm, coords, idx, results, best>>
dom == <<resultSection, loadingSection>>
history == <<settled, geoResult, outcome, geoFetches, weatherFetches, generated>>
calls == <<requested, sortInput, rankCalls, showCalls>>
\* What no step of the submit handler touches.
apart == <<generator, concurrent>>
vars == <<pc, locals, dom, history, calls, generator, concurrent>>

Queries == 1..MaxQueries

\* The points of query q's call of findBestWeather (line 49).
points(q) == generateCandidatePoints(coords[q].lat, coords[q].lon, radiusKm[q])

\* The concurrent schedule has not been started.
NotStarted == [slots |-> <<>>, order |-> <<>>]

\* generateCandidatePoints is not running.
NoCall ==
    [pc |-> "idle", build |-> "rounded", lat |-> NaN, lon |-> NaN,
     radiusKm |-> NaN, candidates |-> <<>>, next |-> 0]

\* The page as loaded: both sections hidden, no query started.
PageLoaded ==
    /\ pc = [q \in Queries |-> "idle"]
    /\ place = [q \in Queries |-> <<>>]
    /\ radiusKm = [q \in Queries |-> NaN]
    /\ coords = [q \in Queries |-> NoCoords]
    /\ idx = [q \in Queries |-> 0]
    /\ results = [q \in Queries |-> <<>>]
    /\ best = [q \in Queries |-> Undefined]
    /\ resultSection = [hidden |-> TRUE, html |-> Html("empty", 0, "", NoCard)]
    /\ loadingSection = [hidden |-> TRUE, text |-> ""]
    /\ settled = [q \in Queries |-> <<>>]
    /\ geoResult = [q \in Queries |-> "pending"]
    /\ outcome = [q \in Queries |-> "pending"]
    /\ geoFetches = [q \in Queries |-> 0]
    /\ weatherFetches = [q \in Queries |-> 0]
    /\ generated = [q \in Queries |-> FALSE]
    /\ requested = [q \in Queries |-> <<>>]
    /\ sortInput = [q \in Queries |-> <<>>]
    /\ rankCalls = [q \in Queries |-> 0]
    /\ showCalls = [q \in Queries |-> 0]
    /\ concurrent = [q \in Queries |-> NotStarted]

Init == PageLoaded /\ generator = NoCall

(***************************************************************************)
(* The submit handler, lines 30-61                                         *)
(***************************************************************************)
\* Line 34: the inputs the handler turns away.
InputRejected(location, radius) == location = <<>> \/ isNaN(radius)

\* Lines 54-60: the catch block writes the message, then the finally block
\* hides the loading section.
Caught(q, msg) ==
    /\ resultSection' = [hidden |-> FALSE, html |-> Html("error", q, msg, NoCard)]
    /\ loadingSection' = [loadingSection EXCEPT !.hidden = TRUE]
    /\ pc' = [pc EXCEPT ![q] = "done"]
    /\ outcome' = [outcome EXCEPT ![q] = msg]

\* showResult has written html (lines 196-197, 202-213); then the finally
\* block (line 59).
Shown(q, html) ==
    /\ resultSection' = [hidden |-> FALSE, html |-> html]
    /\ loadingSection' = [loadingSection EXCEPT !.hidden = TRUE]
    /\ pc' = [pc EXCEPT ![q] = "done"]
    /\ outcome' = [outcome EXCEPT ![q] = "shown"]

\* Lines 30-44 and 71-75, 223-227: validation, the loading indicator, and
\* the geocoding request with its timer.
Submit(q, locationValue, radiusValue) ==
    /\ pc[q] = "idle"
    /\ IF q = 1 THEN TRUE ELSE pc[q - 1] # "idle"
    /\ LET location == trim(locationValue)
           radius   == parseFloat(radiusValue)
       IN  /\ place' = [place EXCEPT ![q] = location]
           /\ radiusKm' = [radiusKm EXCEPT ![q] = radius]
           /\ IF InputRejected(location, radius)
              THEN /\ pc' = [pc EXCEPT ![q] = "done"]
                   /\ outcome' = [outcome EXCEPT ![q] = "rejected"]
                   /\ UNCHANGED <<dom, geoFetches>>
              ELSE /\ resultSection' = [resultSection EXCEPT !.hidden = TRUE]
                   /\ loadingSection' = [hidden |-> FALSE, text |-> "Suche laeuft"]
                   /\ pc' = [pc EXCEPT ![q] = "geoFetch"]
                   /\ geoFetches' = [geoFetches EXCEPT ![q] = @ + 1]
                   /\ UNCHANGED outcome
    /\ UNCHANGED <<coords, idx, results, best, settled, geoResult,
                   weatherFetches, generated, calls, apart>>

\* The geocoding request fails before a response: the handler's catch block.
GeoFailed(q, msg) ==
    /\ pc[q] = "geoFetch"
    /\ Caught(q, msg)
    /\ UNCHANGED <<locals, settled, geoResult, geoFetches, weatherFetches,
                   generated, calls, apart>>

\* Lines 227-230, 75-79: the response arrives and the timer is cleared; a
\* response that is not ok throws, else the body is read.
GeoResponse(q, ok) ==
    /\ pc[q] = "geoFetch"
    /\ IF ok
       THEN /\ pc' = [pc EXCEPT ![q] = "geoJson"]
            /\ UNCHANGED <<dom, outcome>>
       ELSE Caught(q, "geocodingFailed")
    /\ UNCHANGED <<locals, settled, geoResult, geoFetches, weatherFetches,
                   generated, calls, apart>>

\* fetch rejects (no connection, CORS).
GeoFetchError(q) == GeoFailed(q, "networkError")

\* Line 225: the timer fires and aborts the request.
GeoTimeout(q) == GeoFailed(q, "aborted")

\* response.json() rejects.
GeoBodyError(q) ==
    /\ pc[q] = "geoJson"
    /\ Caught(q, "badJson")
    /\ UNCHANGED <<locals, settled, geoResult, geoFetches, weatherFetches,
                   generated, calls, apart>>

\* findBestWeather requesting the forecasts of all the points at once.
GeoBodyFanOut(q, data) ==
    /\ pc[q] = "geoJson"
    /\ LET c == CoordinatesOf(data)
           pts == generateCandidatePoints(c.lat, c.lon, radiusKm[q])
       IN  /\ coords' = [coords EXCEPT ![q] = c]
           /\ geoResult' = [geoResult EXCEPT ![q] =
                                IF c.found THEN "match" ELSE "null"]
           /\ IF CoordsMissing(c)
              THEN /\ Caught(q, "notFound")
                   /\ UNCHANGED <<idx, results, weatherFetches, generated,
                                  requested>>
              ELSE /\ generated' = [generated EXCEPT ![q] = TRUE]
                   /\ idx' = [idx EXCEPT ![q] = 1]
                   /\ results' = [results EXCEPT ![q] = <<>>]
                   /\ pc' = [pc EXCEPT ![q] = "weatherFetch"]
                   /\ weatherFetches' = [weatherFetches EXCEPT ![q] = Len(pts)]
                   /\ requested' = [requested EXCEPT ![q] = pts]
                   /\ UNCHANGED <<dom, outcome>>
           /\ UNCHANGED <<place, radiusKm, best>>
    /\ UNCHANGED <<settled, geoFetches, sortInput, rankCalls, showCalls,
                   apart>>

\* Lines 79-84, 44-51, 124-128, 158-162: the body is parsed; without a match
\* the handler throws, else it generates the points and findBestWeather
\* requests the forecast of the first.
GeoBody(q, data) ==
    /\ pc[q] = "geoJson"
    /\ LET c == CoordinatesOf(data)
       IN  /\ coords' = [coords EXCEPT ![q] = c]
           /\ geoResult' = [geoResult EXCEPT ![q] =
                                IF c.found THEN "match" ELSE "null"]
           /\ IF CoordsMissing(c)
              THEN /\ Caught(q, "notFound")
                   /\ UNCHANGED <<idx, results, weatherFetches, generated,
                                  requested>>
              ELSE /\ generated' = [generated EXCEPT ![q] = TRUE]
                   /\ idx' = [idx EXCEPT ![q] = 1]
                   /\ results' = [results EXCEPT ![q] = <<>>]
                   /\ pc' = [pc EXCEPT ![q] = "weatherFetch"]
                   /\ weatherFetches' = [weatherFetches EXCEPT ![q] = @ + 1]
                   /\ requested' = [requested EXCEPT ![q] = Append(@,
                         generateCandidatePoints(c.lat, c.lon, radiusKm[q])[1])]
                   /\ UNCHANGED <<dom, outcome>>
           /\ UNCHANGED <<place, radiusKm, best>>
    /\ UNCHANGED <<settled, geoFetches, sortInput, rankCalls, showCalls,
                   apart>>

(***************************************************************************)
(* findBestWeather, lines 124-148                                          *)
(***************************************************************************)
\* Lines 142-147, 53, 59: every point has settled: sort, take the first,
\* show it.
Rank(q, newResults, newSettled) ==
    \E sorted \in sort(newResults) :
        LET b == IF sorted = <<>> THEN Undefined ELSE <<sorted[1]>>
            r == showResult(b, place[q], radiusKm[q], q)
        IN  /\ results' = [results EXCEPT ![q] = sorted]
            /\ best' = [best EXCEPT ![q] = b]
            /\ settled' = [settled EXCEPT ![q] = newSettled]
            /\ sortInput' = [sortInput EXCEPT ![q] = newResults]
            /\ rankCalls' = [rankCalls EXCEPT ![q] = @ + 1]
            /\ showCalls' = [showCalls EXCEPT ![q] = @ + 1]
            /\ IF r.threw THEN Caught(q, "typeError") ELSE Shown(q, r.html)
            /\ UNCHANGED <<place, radiusKm, coords, idx, geoResult,
                           geoFetches, weatherFetches, generated, requested,
                           apart>>

\* The loop leaving at the first evaluation it gets, the later points untried.
NextPointEarly(q, newResults, newSettled) ==
    IF idx[q] < Len(points(q)) /\ newResults = <<>>
    THEN /\ idx' = [idx EXCEPT ![q] = @ + 1]
         /\ results' = [results EXCEPT ![q] = newResults]
         /\ settled' = [settled EXCEPT ![q] = newSettled]
         /\ pc' = [pc EXCEPT ![q] = "weatherFetch"]
         /\ weatherFetches' = [weatherFetches EXCEPT ![q] = @ + 1]
         /\ requested' = [requested EXCEPT ![q] =
                              Append(@, points(q)[idx[q] + 1])]
         /\ UNCHANGED <<place, radiusKm, coords, best, dom, geoResult,
                        outcome, geoFetches, generated, sortInput,
                        rankCalls, showCalls, apart>>
    ELSE Rank(q, newResults, newSettled)

\* Line 126: the loop goes on to the next point and requests its forecast,
\* or ends.
NextPoint(q, newResults, newSettled) ==
    IF idx[q] < Len(points(q))
    THEN /\ idx' = [idx EXCEPT ![q] = @ + 1]
         /\ results' = [results EXCEPT ![q] = newResults]
         /\ settled' = [settled EXCEPT ![q] = newSettled]
         /\ pc' = [pc EXCEPT ![q] = "weatherFetch"]
         /\ weatherFetches' = [weatherFetches EXCEPT ![q] = @ + 1]
         /\ requested' = [requested EXCEPT ![q] =
                              Append(@, points(q)[idx[q] + 1])]
         /\ UNCHANGED <<place, radiusKm, coords, best, dom, geoResult,
                        outcome, geoFetches, generated, sortInput,
                        rankCalls, showCalls, apart>>
    ELSE Rank(q, newResults, newSettled)

\* The loop without its try/catch: the error of getWeather leaves
\* findBestWeather and ends in the catch block of the handler.
CandidateFailedRethrows(q) ==
    /\ Caught(q, "weatherFailed")
    /\ settled' = [settled EXCEPT ![q] =
                      Append(@, [ok |-> FALSE, data |-> NoData, body |-> NoBody])]
    /\ UNCHANGED <<locals, geoResult, geoFetches, weatherFetches, generated,
                   calls, apart>>

\* Lines 138-140: getWeather threw for the point; the catch block of the
\* loop logs it and the loop goes on.
CandidateFailed(q) ==
    NextPoint(q, results[q],
              Append(settled[q], [ok |-> FALSE, data |-> NoData, body |-> NoBody]))

\* The loop putting the entry in front of the array instead of behind it.
CandidateEvaluatedFirst(q, body, data) ==
    NextPoint(q, <<ResultEntry(points(q)[idx[q]], data)>> \o results[q],
              Append(settled[q], [ok |-> TRUE, data |-> data, body |-> body]))

\* Lines 128-137: getWeather returned data; the entry is pushed.
CandidateEvaluated(q, body, data) ==
    NextPoint(q, Append(results[q], ResultEntry(points(q)[idx[q]], data)),
              Append(settled[q], [ok |-> TRUE, data |-> data, body |-> body]))

\* Lines 227-230, 162-166: the response arrives and the timer is cleared; a
\* response that is not ok throws, else the body is read.
WeatherResponse(q, ok) ==
    /\ pc[q] = "weatherFetch"
    /\ IF ok
       THEN /\ pc' = [pc EXCEPT ![q] = "weatherJson"]
            /\ UNCHANGED <<locals, dom, history, calls, apart>>
       ELSE CandidateFailed(q)

\* fetch rejects.
WeatherFetchError(q) ==
    /\ pc[q] = "weatherFetch"
    /\ CandidateFailed(q)

\* Line 225: the timer fires and aborts the request.
WeatherTimeout(q) ==
    /\ pc[q] = "weatherFetch"
    /\ CandidateFailed(q)

\* resp.json() rejects.
WeatherBodyError(q) ==
    /\ pc[q] = "weatherJson"
    /\ CandidateFailed(q)

\* Lines 166-185: the body is parsed and evaluated.
WeatherBody(q, data) ==
    /\ pc[q] = "weatherJson"
    /\ LET r == EvaluateWeather(data)
       IN  IF r.threw
           THEN CandidateFailed(q)
           ELSE CandidateEvaluated(q, data, r.value)

(***************************************************************************)
(* Specifications                                                          *)
(***************************************************************************)
\* The steps of the queries Q with the inputs and answers of the given sets.
NextOf(Q, places, radii, geoBodies, weatherBodies) ==
    \E q \in Q :
        \/ \E l \in places, r \in radii : Submit(q, l, r)
        \/ \E ok \in BOOLEAN : GeoResponse(q, ok)
        \/ GeoFetchError(q)
        \/ GeoTimeout(q)
        \/ \E d \in geoBodies : GeoBody(q, d)
        \/ GeoBodyError(q)
        \/ \E ok \in BOOLEAN : WeatherResponse(q, ok)
        \/ WeatherFetchError(q)
        \/ WeatherTimeout(q)
        \/ \E d \in weatherBodies : WeatherBody(q, d)
        \/ WeatherBodyError(q)

\* One query, with every input and answer of the model.
Next == NextOf({1}, PlaceInputs, RadiusInputs, GeoPayloads, WeatherPayloads)

Spec == Init /\ [][Next]_vars

\* Overlapping queries: handler invocations 1..MaxQueries, numbered in the
\* order of their submit events, with one valid input and one answer of
\* each kind (a request can still fail, time out or be answered not ok).
OverlapGeoPayloads ==
    { [results |-> <<>>],
      [results |-> << [lat |-> Num(60 * Unit), lon |-> Num(10 * Unit)] >>] }

OverlapWeatherPayloads ==
    { Payload("ok", << Hour(<<"8", "0">>, <<"0", ".", "5">>) >>, "named") }

NextOverlap ==
    NextOf(Queries, { <<"B">> }, { <<"5", "0">> }, OverlapGeoPayloads,
           OverlapWeatherPayloads)

SpecOverlap == Init /\ [][NextOverlap]_vars

(***************************************************************************)
(* The steps of lines 128-140 under a concurrent schedule: the forecasts   *)
(* of all points are requested at once, the evaluations arrive in any      *)
(* order, each is kept in the slot of its point, and the slots are read in *)
(* the order of the points.  Every point ends as it ended in the loop.     *)
(***************************************************************************)
\* All requests are issued; every slot is pending.
ConcurrentStart(q) ==
    /\ generated[q] /\ pc[q] = "done"
    /\ concurrent[q] = NotStarted
    /\ concurrent' = [concurrent EXCEPT ![q] =
                          [slots |-> [i \in 1..Len(points(q)) |-> <<>>],
                           order |-> <<>>]]
    /\ UNCHANGED <<pc, locals, dom, history, calls, generator>>

\* The evaluation of point i arrives, whichever points are still pending.
ConcurrentSettle(q, i) ==
    /\ i \in 1..Len(concurrent[q].slots)
    /\ concurrent[q].slots[i] = <<>>
    /\ concurrent' = [concurrent EXCEPT ![q] =
                          [slots |-> [@.slots EXCEPT ![i] =
                                        << [ok   |-> settled[q][i].ok,
                                            data |-> settled[q][i].data] >>],
                           order |-> Append(@.order, i)]]
    /\ UNCHANGED <<pc, locals, dom, history, calls, generator>>

\* The answers of the forecast service in the runs that compare schedules:
\* two dryness values, equal scores at different points, and an empty series.
ScheduleWeatherPayloads ==
    { Payload("ok", << Hour(<<"8", "0">>, <<"0", ".", "5">>) >>, "named"),
      Payload("ok", << Hour(<<"5", "0">>, <<"0", ".", "0">>) >>, "named"),
      Payload("ok", <<>>, "named") }

NextSchedule ==
    \/ NextOf({1}, { <<"B">> }, { <<"5", "0">> }, OverlapGeoPayloads,
              ScheduleWeatherPayloads)
    \/ ConcurrentStart(1)
    \/ \E i \in 1..(1 + MaxDirections) : ConcurrentSettle(1, i)

SpecSchedule == Init /\ [][NextSchedule]_vars

(***************************************************************************)
(* generateCandidatePoints on its own, lines 96-114, with all the bearings *)
(* of line 106, for origins and radii the geocoding service and the user   *)
(* can supply.                                                             *)
(***************************************************************************)
\* Latitudes and longitudes of the origin, in degrees, and radii in km.
OriginLats == {-90, -60, 0, 45, 60, 89, 90}

OriginLons == {-180, 0, 10, 180}

GeneratorRadii == {1, 50, 200}

\* The function has been called with its arguments.
InitGenerator ==
    /\ PageLoaded
    /\ generator \in
          { [pc |-> "called", build |-> b, lat |-> Num(la * Unit),
             lon |-> Num(lo * Unit), radiusKm |-> Num(r * Unit),
             candidates |-> <<>>, next |-> 0] :
              b \in TrigBuilds, la \in OriginLats, lo \in OriginLons,
              r \in GeneratorRadii }

\* The function returning without having pushed the origin.
GeneratorSkipOrigin ==
    /\ generator.pc = "called"
    /\ generator' = [generator EXCEPT !.pc = "forEach", !.next = 1]
    /\ UNCHANGED <<pc, locals, dom, history, calls, concurrent>>

\* Lines 97-106: the origin is pushed first.
GeneratorPushOrigin ==
    /\ generator.pc = "called"
    /\ generator' = [generator EXCEPT
                        !.pc = "forEach",
                        !.candidates = << [lat |-> generator.lat,
                                           lon |-> generator.lon] >>,
                        !.next = 1]
    /\ UNCHANGED <<pc, locals, dom, history, calls, concurrent>>

\* Lines 107-112: one call of the forEach callback.
GeneratorForEach ==
    /\ generator.pc = "forEach"
    /\ generator.next <= Len(AllDirections)
    /\ generator' = [generator EXCEPT
                        !.candidates =
                            Append(@, candidatePoint(generator.build,
                                       generator.lat, generator.lon,
                                       generator.radiusKm,
                                       AllDirections[generator.next])),
                        !.next = @ + 1]
    /\ UNCHANGED <<pc, locals, dom, history, calls, concurrent>>

\* Line 113.
GeneratorReturn ==
    /\ generator.pc = "forEach"
    /\ generator.next > Len(AllDirections)
    /\ generator' = [generator EXCEPT !.pc = "returned"]
    /\ UNCHANGED <<pc, locals, dom, history, calls, concurrent>>

NextGenerator == GeneratorPushOrigin \/ GeneratorForEach \/ GeneratorReturn

SpecGenerator == InitGenerator /\ [][NextGenerator]_vars

\* What the event loop guarantees: an armed timer fires unless it is cleared
\* first (line 225).  When, and whether, the network answers is up to the
\* network.
TimerFairness ==
    \A q \in Queries : WF_vars(GeoTimeout(q)) /\ WF_vars(WeatherTimeout(q))

SpecTimers == Init /\ [][Next]_vars /\ TimerFairness

\* The reading of a response body (lines 79, 166) settles: json() resolves
\* or rejects.  Nothing in the code makes it so; no timer is armed then.
GeoBodySettles(q) == GeoBodyError(q) \/ \E d \in GeoPayloads : GeoBody(q, d)

WeatherBodySettles(q) ==
    WeatherBodyError(q) \/ \E d \in WeatherPayloads : WeatherBody(q, d)

BodyFairness ==
    \A q \in Queries :
        WF_vars(GeoBodySettles(q)) /\ WF_vars(WeatherBodySettles(q))

\* The timers fire and, by assumption, the bodies arrive.
SpecResponsive == Init /\ [][Next]_vars /\ TimerFairness /\ BodyFairness

(***************************************************************************)
(* Properties                                                              *)
(***************************************************************************)
\* Query q passed the validation of line 34.
Accepted(q) == pc[q] # "idle" /\ outcome[q] # "rejected"

\* Query q has ended by writing the result section (showResult or the catch
\* block).
Completed(q) == pc[q] = "done" /\ outcome[q] # "rejected"

\* The inputs the specification calls invalid: an empty place name, a radius
\* that is no number or not positive.
InvalidInput(q) ==
    pc[q] # "idle" /\ (place[q] = <<>> \/ isNaN(radiusKm[q]) \/ radiusKm[q].v <= 0)

\* Query q was submitted with a place name and a positive radius.
ValidInput(q) == pc[q] # "idle" /\ ~InvalidInput(q)

\* C1: stale results never overwrite a newer query's displayed output: when
\* query b was submitted after query a and has completed, the result section
\* does not show what a wrote.
C1_StaleNeverOverwrites ==
    \A a, b \in Queries :
        (a < b /\ Accepted(a) /\ Completed(b))
            => resultSection.html.owner # a

\* The entries of the points whose getWeather returned, in the order of the
\* points: what the loop of lines 126-141 collects.
RECURSIVE Successes(_, _)
Successes(st, pts) ==
    IF st = <<>>
    THEN <<>>
    ELSE LET n == Len(st)
             front == Successes(SubSeq(st, 1, n - 1), pts)
         IN  IF st[n].ok
             THEN Append(front, ResultEntry(pts[n], st[n].data))
             ELSE front

\* a and b hold the same entries, each as often.
SameEntries(a, b) ==
    /\ Len(a) = Len(b)
    /\ \A i \in 1..Len(a) :
          Cardinality({j \in 1..Len(a) : a[j] = a[i]})
              = Cardinality({j \in 1..Len(b) : b[j] = a[i]})

InLoop(q) == pc[q] \in {"weatherFetch", "weatherJson"}

\* findBestWeather has returned for query q.
Ranked(q) == generated[q] /\ pc[q] = "done"

AllFailed(q) == \A i \in 1..Len(settled[q]) : ~settled[q][i].ok

\* C2: per-candidate failure isolation: whichever points fail, the loop goes
\* on to every remaining point, the ranked list holds exactly the entries of
\* the points that did not fail, the winner is one of them, it is absent only
\* if every point failed, and the query never ends in the catch block.
C2_FailureIsolation ==
    \A q \in Queries :
        /\ InLoop(q) =>
              /\ Len(settled[q]) = idx[q] - 1
              /\ results[q] = Successes(settled[q], points(q))
        /\ Ranked(q) =>
              /\ outcome[q] = "shown"
              /\ Len(settled[q]) = Len(points(q))
              /\ weatherFetches[q] = Len(points(q))
              /\ SameEntries(results[q], Successes(settled[q], points(q)))
              /\ (best[q] = Undefined) <=> AllFailed(q)
              /\ best[q] # Undefined =>
                    \E i \in 1..Len(results[q]) : best[q][1] = results[q][i]

\* A query has ended with a winner although the point before a successful
\* one had failed.
C2_Witness ==
    \E q \in Queries :
        /\ Ranked(q)
        /\ best[q] # Undefined
        /\ \E i, j \in 1..Len(settled[q]) :
              i < j /\ ~settled[q][i].ok /\ settled[q][j].ok

\* x >= y for two numbers, false when either is NaN.
GreaterOrEqual(x, y) == ~isNaN(x) /\ ~isNaN(y) /\ x.v >= y.v

SameScores(a, b) == a.dryness = b.dryness /\ a.precip = b.precip

\* w is the entry of S that the ranking rule selects: the maximum dryness,
\* among those the minimum precip, among those the earliest.  An entry whose
\* dryness (precip) is NaN has no dryness (precip) to compare with.
IsRankedFirst(w, S) ==
    /\ \A i \in 1..Len(S) :
          ~isNaN(S[i].dryness) => GreaterOrEqual(w.dryness, S[i].dryness)
    /\ \A i \in 1..Len(S) :
          (S[i].dryness = w.dryness /\ ~isNaN(S[i].precip))
              => GreaterOrEqual(S[i].precip, w.precip)
    /\ \E i \in 1..Len(S) :
          /\ w = S[i]
          /\ \A j \in 1..(i - 1) : ~SameScores(S[j], w)

\* C3: ranking and tie-break: the entry findBestWeather returns has the
\* maximum dryness of the successful evaluations, among those the minimum
\* precip, and among those it is the one of the earliest point (stated for
\* the queries with valid input).
C3_RankingTieBreak ==
    \A q \in Queries :
        (ValidInput(q) /\ Ranked(q) /\ ~AllFailed(q)) =>
            /\ best[q] # Undefined
            /\ IsRankedFirst(best[q][1], Successes(settled[q], points(q)))

\* The same for the queries all of whose evaluations are numbers.
AllNumeric(q) ==
    \A i \in 1..Len(settled[q]) :
        settled[q][i].ok =>
            ~isNaN(settled[q][i].data.dryness) /\ ~isNaN(settled[q][i].data.precip)

RankingOfNumericEvaluations ==
    \A q \in Queries :
        (Ranked(q) /\ ~AllFailed(q) /\ AllNumeric(q)) =>
            /\ best[q] # Undefined
            /\ IsRankedFirst(best[q][1], Successes(settled[q], points(q)))

\* C4: the entry selected and handed to showResult is absent or has a dryness
\* that is a number, not NaN (stated for the queries with valid input).
C4_WinnerHasNumericDryness ==
    \A q \in Queries :
        (ValidInput(q) /\ best[q] # Undefined) => ~isNaN(best[q][1].dryness)

\* The series of a response body is missing, no array, or empty.
SeriesIncomplete(body) ==
    \/ body.shape \in {"noWeather", "hourlyNotArray"}
    \/ body.shape = "ok" /\ body.hourly = <<>>

\* C5: getWeather throws for every forecast whose hourly series is missing,
\* not an array or empty, so that no evaluation comes of it (stated for the
\* queries with valid input).
C5_IncompleteSeriesThrows ==
    \A q \in Queries :
        \A i \in 1..Len(settled[q]) :
            (ValidInput(q) /\ SeriesIncomplete(settled[q][i].body))
                => ~settled[q][i].ok

\* C6: a submit with invalid input issues no geocoding request and no
\* forecast request and never calls generateCandidatePoints.
C6_InvalidInputNoNetwork ==
    \A q \in Queries :
        InvalidInput(q) =>
            geoFetches[q] = 0 /\ weatherFetches[q] = 0 /\ ~generated[q]

\* The result section shows a message written by query q.
MessageShown(q) ==
    /\ ~resultSection.hidden
    /\ resultSection.html.owner = q
    /\ resultSection.html.kind = "error"

\* C7: a submit with invalid input, and a submit whose place has no geocoding
\* match, end at once with a message in the visible result section and take
\* no later step of the pipeline.
C7_AbortWithMessage ==
    \A q \in Queries :
        (InvalidInput(q) \/ geoResult[q] = "null") =>
            /\ pc[q] = "done"
            /\ MessageShown(q)
            /\ weatherFetches[q] = 0 /\ ~generated[q]

\* C8: when getCoordinates returns null the query ends with the not-found
\* error, generateCandidatePoints is not called and no forecast is requested.
C8_NotFoundBeforeGeneration ==
    \A q \in Queries :
        geoResult[q] = "null" =>
            /\ pc[q] = "done"
            /\ outcome[q] = "notFound"
            /\ ~generated[q]
            /\ weatherFetches[q] = 0
            /\ settled[q] = <<>>

\* A geocoding lookup has returned no match.
C8_Witness ==
    \E q \in Queries :
        /\ geoResult[q] = "null"
        /\ resultSection.html = Html("error", q, "notFound", NoCard)

\* C9: when every point has failed findBestWeather returns undefined without
\* throwing, and showResult reports that no site was found: the handler does
\* not enter the catch block.
C9_TotalFailureReportsNoSite ==
    \A q \in Queries :
        (Ranked(q) /\ AllFailed(q)) =>
            /\ best[q] = Undefined
            /\ outcome[q] = "shown"
            /\ resultSection = [hidden |-> FALSE, html |-> Html("none", q, "", NoCard)]
            /\ loadingSection.hidden

\* Every point of a query has been tried and has failed.
C9_Witness ==
    \E q \in Queries :
        /\ Ranked(q)
        /\ Len(settled[q]) = 1 + MaxDirections
        /\ AllFailed(q)

\* The forecast of point i of query q, a query with valid input, is being
\* fetched or its body read.
ForecastPending(q, i) == ValidInput(q) /\ InLoop(q) /\ idx[q] = i

\* C10: no forecast request stays pending for ever, the reading of its
\* response body included: the timeout ends it, the point counts as failed
\* and the loop goes on.
C10_NoForecastPendsForEver ==
    \A q \in Queries :
        \A i \in 1..(1 + MaxDirections) :
            ForecastPending(q, i) ~> ~ForecastPending(q, i)

\* The part of C10 the timer of line 225 does guarantee: the request itself
\* (up to the response headers) does not stay pending.
ForecastFetchEnds ==
    \A q \in Queries :
        \A i \in 1..(1 + MaxDirections) :
            (pc[q] = "weatherFetch" /\ idx[q] = i)
                ~> ~(pc[q] = "weatherFetch" /\ idx[q] = i)

\* Every point of query q has settled: its getWeather returned or threw.
AllSettled(q) == Len(settled[q]) = Len(points(q))

\* C11: fan-in before reduction: within a query the sort of line 143 and the
\* call of showResult run at most once, both only when every point has
\* settled, exactly once when findBestWeather has returned, and the no-site
\* message is written only when every point was tried and every one failed.
C11_FanInBeforeReduction ==
    \A q \in Queries :
        /\ rankCalls[q] <= 1 /\ showCalls[q] <= 1
        /\ (rankCalls[q] > 0 \/ showCalls[q] > 0) =>
              /\ AllSettled(q)
              /\ weatherFetches[q] = Len(points(q))
              /\ sortInput[q] = Successes(settled[q], points(q))
        /\ Ranked(q) => rankCalls[q] = 1 /\ showCalls[q] = 1
        /\ InLoop(q) => rankCalls[q] = 0 /\ showCalls[q] = 0
        /\ (outcome[q] = "shown" /\ best[q] = Undefined) =>
              AllSettled(q) /\ AllFailed(q)

\* A query has sorted once and shown a winner once, after its last point
\* settled with a failure.
C11_Witness ==
    \E q \in Queries :
        /\ rankCalls[q] = 1 /\ showCalls[q] = 1
        /\ Len(settled[q]) = 1 + MaxDirections
        /\ ~settled[q][1 + MaxDirections].ok
        /\ resultSection.html.kind = "best"

\* Under the concurrent schedule every evaluation of query q has arrived.
ConcurrentSettled(q) ==
    /\ concurrent[q] # NotStarted
    /\ \A i \in 1..Len(concurrent[q].slots) : concurrent[q].slots[i] # <<>>

\* The entries the concurrent schedule collects: the slots read in the order
\* of the points.
Collected(q) ==
    Successes([i \in 1..Len(concurrent[q].slots) |-> concurrent[q].slots[i][1]],
              points(q))

\* The winners results.sort can leave first for the array arr.
Winners(arr) ==
    { IF sorted = <<>> THEN Undefined ELSE <<sorted[1]>> : sorted \in sort(arr) }

\* C12: scheduling independence: with the evaluations arriving in any order
\* and collected in the order of the points, the concurrent schedule hands
\* results.sort the very array the sequential loop handed it, so the winner
\* is the same: the loop's winner is a winner of the collected array, and
\* the only one whenever the comparison function is consistent for it.
C12_SchedulingIndependence ==
    \A q \in Queries :
        ConcurrentSettled(q) =>
            /\ Collected(q) = sortInput[q]
            /\ best[q] \in Winners(Collected(q))
            /\ ConsistentComparator(Collected(q)) =>
                  Winners(Collected(q)) = {best[q]}

\* The evaluations have all arrived, the last point's first, two points
\* have equal scores, and there is a winner.
C12_Witness ==
    \E q \in Queries :
        /\ ConcurrentSettled(q)
        /\ concurrent[q].order[1] = 1 + MaxDirections
        /\ best[q] # Undefined
        /\ \E i, j \in 1..Len(Collected(q)) :
              i < j /\ SameScores(Collected(q)[i], Collected(q)[j])

\* Some hour of the series of a response body has a precipMM that parseFloat
\* cannot read as a number.
PrecipUnparsable(body) ==
    /\ body.shape = "ok"
    /\ \E i \in 1..Len(body.hourly) : isNaN(parseFloat(body.hourly[i].precipMM))

\* C13: getWeather throws for every forecast in which the precipMM of some
\* hour cannot be parsed as a number, so that the point is not ranked (stated
\* for the queries with valid input).
C13_UnparsablePrecipThrows ==
    \A q \in Queries :
        \A i \in 1..Len(settled[q]) :
            (ValidInput(q) /\ PrecipUnparsable(settled[q][i].body))
                => ~settled[q][i].ok

\* generateCandidatePoints has returned for an origin that is not at a pole
\* and a positive radius.
ReturnedOffPole ==
    /\ generator.pc = "returned"
    /\ ~AtPole(generator.lat)
    /\ generator.radiusKm.v > 0

\* The signs of the offsets in latitude and longitude of the compass
\* directions N, NE, E, SE, S, SW, W, NW.
CompassSigns ==
    << <<1, 0>>, <<1, 1>>, <<0, 1>>, <<-1, 1>>,
       <<-1, 0>>, <<-1, -1>>, <<0, -1>>, <<1, -1>> >>

\* C14: for an origin not at a pole and a positive radius
\* generateCandidatePoints returns exactly 9 points: the first is the origin
\* unchanged, and the (i+1)-th is the point offset at the bearing
\* 45 * (i - 1) degrees, i = 1..8, which lies in the compass direction of
\* that bearing.
C14_CandidateSetShape ==
    ReturnedOffPole =>
        LET c == generator.candidates
        IN  /\ Len(c) = 9
            /\ c[1] = [lat |-> generator.lat, lon |-> generator.lon]
            /\ \A i \in 1..8 :
                  /\ c[i + 1] = OffsetPoint(generator.lat, generator.lon,
                                            generator.radiusKm, 45 * (i - 1))
                  /\ Sign(c[i + 1].lat.v - generator.lat.v) = CompassSigns[i][1]
                  /\ Sign(c[i + 1].lon.v - generator.lon.v) = CompassSigns[i][2]

\* The function has returned nine points for the origin (45, 10) and a
\* radius of 50 km.
C14_Witness ==
    /\ ReturnedOffPole
    /\ generator.lat = Num(45 * Unit) /\ generator.lon = Num(10 * Unit)
    /\ generator.radiusKm = Num(50 * Unit)
    /\ Len(generator.candidates) = 9

\* The points the handler's queries use in the other specifications are the
\* first 1 + MaxDirections of these.
BoundedGeneratorIsPrefix ==
    ReturnedOffPole =>
        SubSeq(generator.candidates, 1, 1 + MaxDirections)
            = generateCandidatePoints(generator.lat, generator.lon,
                                      generator.radiusKm)

\* x is a number between lo and hi degrees.
InDegrees(x, lo, hi) == x.k = "num" /\ lo * Unit <= x.v /\ x.v <= hi * Unit

\* pt is a coordinate: its latitude is in [-90, 90], its longitude in
\* [-180, 180].
IsCoordinate(pt) == InDegrees(pt.lat, -90, 90) /\ InDegrees(pt.lon, -180, 180)

\* C15: every point generateCandidatePoints returns is a coordinate, for
\* every origin that is one and every positive radius (stated for the
\* origins that are not at a pole).
C15_CandidatesAreCoordinates ==
    (ReturnedOffPole /\ IsCoordinate([lat |-> generator.lat,
                                      lon |-> generator.lon])) =>
        \A i \in 1..Len(generator.candidates) :
            IsCoordinate(generator.candidates[i])

\* The same for the latitudes alone, which no wraparound of the longitude
\* can mend: it fails too (origin at 89 degrees north, 200 km).
CandidateLatitudesInRange ==
    ReturnedOffPole =>
        \A i \in 1..Len(generator.candidates) :
            InDegrees(generator.candidates[i].lat, -90, 90)

\* C16: for an origin at a pole generateCandidatePoints does not return
\* points whose longitude is infinite, NaN or the quotient by a vanishing
\* cosine: it throws and returns nothing, or every longitude it returns is
\* a number in the range of the model's numbers.
C16_PolarOriginFailsLoudly ==
    (generator.pc = "returned" /\ AtPole(generator.lat)) =>
        \A i \in 1..Len(generator.candidates) :
            generator.candidates[i].lon.k = "num"

\* Query q passed the validation and its handler has not reached the
\* finally block of line 59.
InFlight(q) == pc[q] \notin {"idle", "done"}

\* C17: the loading section is visible exactly when some accepted query is
\* in flight, overlapping submits included.
C17_LoadingTracksInFlight ==
    (\E q \in Queries : InFlight(q)) <=> ~loadingSection.hidden

\* The page shows one outcome: the loading section is hidden and the result
\* section is visible with the card of the best site, the no-site message
\* or an error message.
OutcomeShown ==
    /\ loadingSection.hidden
    /\ ~resultSection.hidden
    /\ resultSection.html.kind \in {"best", "none", "error"}

\* C18: every query that passes the validation of line 34 ends: it reaches
\* the end of the handler with one outcome shown, given that every request
\* is answered, fails or is ended by its timer.
C18_AcceptedQueryEnds ==
    \A q \in Queries :
        Accepted(q) ~> (pc[q] = "done" /\ OutcomeShown)

\* The same, to be checked where the bodies of the responses arrive too
\* (SpecResponsive): it holds there.
AcceptedQueryEndsWhenBodiesArrive ==
    \A q \in Queries :
        (pc[q] # "idle" /\ outcome[q] # "rejected")
            ~> (pc[q] = "done" /\ OutcomeShown)

\* The geocoding request of query q is outstanding: issued, and
\* getCoordinates has neither returned nor thrown.
GeoOutstanding(q) ==
    IF geoFetches[q] > 0 /\ geoResult[q] = "pending" /\ pc[q] # "done"
    THEN 1 ELSE 0

\* The forecast requests of query q that are outstanding: issued, and
\* getWeather has neither returned nor thrown.
WeatherOutstanding(q) == weatherFetches[q] - Len(settled[q])

\* The i-th point in candidate order: the origin, then the bearings 0, 45,
\* ..., 315.
CandidateInOrder(q, i) ==
    IF i = 1
    THEN [lat |-> coords[q].lat, lon |-> coords[q].lon]
    ELSE OffsetPoint(coords[q].lat, coords[q].lon, radiusKm[q], 45 * (i - 2))

\* C19: within a query the geocoding lookup has returned a match before any
\* forecast is requested, the forecasts are requested in candidate order,
\* each only when the one before has settled, and at most one request of
\* the query is outstanding at any time.
C19_StrictRequestOrdering ==
    \A q \in Queries :
        /\ geoFetches[q] <= 1
        /\ weatherFetches[q] > 0 =>
              geoResult[q] = "match" /\ GeoOutstanding(q) = 0
        /\ Len(requested[q]) = weatherFetches[q]
        /\ \A i \in 1..Len(requested[q]) :
              requested[q][i] = CandidateInOrder(q, i)
        /\ WeatherOutstanding(q) \in {0, 1}
        /\ GeoOutstanding(q) + WeatherOutstanding(q) <= 1

\* The forecast of the last point has been requested, the ones before have
\* settled, and it is outstanding.
C19_Witness ==
    \E q \in Queries :
        /\ Len(requested[q]) = 1 + MaxDirections
        /\ Len(settled[q]) = MaxDirections
        /\ WeatherOutstanding(q) = 1
        /\ pc[q] = "weatherJson"

=============================================================================
